---- MODULE Spec2Model ----
(***************************************************************************)
(* Thermal logger (main.py): session directory numbering, the acquisition  *)
(* loop with its autosave gate, the write-verify-rename image save, the    *)
(* GPS reader and index.csv, the start of main() up to the loop, and       *)
(* hottest_box (also in its thermal_camera.py form); ArduinoReader         *)
(* (arduino_reader.py): the line parser and the reconnecting read loop;    *)
(* DataLogger.log_data.  Each part has its own specification, which leaves *)
(* the variables of the other parts as they are.                           *)
(*                                                                         *)
(* Time is counted in tenths of a second (THERMAL_INTERVAL = 3.0 s = 30).  *)
(* File names are records [ts, tag]: "<ts>_<tag>.png"; the temp file made  *)
(* by mkstemp is TmpName.  File contents are records [id, kind, st]: the   *)
(* tick whose image it is, which image, and how much of it is on disk.     *)
(***************************************************************************)
EXTENDS Integers, Sequences, FiniteSets, TLC

\* ---------------------------------------------------------------- bounds
MaxTicks    == 3     \* loop iterations of a run with events of every kind
MaxEvents   == 2     \* environment events in such a run: calibrated-path
                     \* errors, key presses, encoder failures, GPS fixes
StreakTicks == 4     \* loop iterations of a run whose only events are
                     \* calibrated-path errors
Epoch      == 100    \* wall clock (time.time()) when the loop starts
MaxRuns    == 2      \* logger instances started on one data root
CycleTicks == 7      \* loop iterations of a run that saves on every tick
MaxFields  == 8      \* comma-separated fields of a telemetry line
MaxPortEvents == 3   \* ports appearing or vanishing, transient read errors,
                     \* telemetry lines arriving
MaxLiveEvents == 2   \* the same, in the runs checked for progress
MaxReads   == 2      \* error-free passes of the ArduinoReader loop
MaxRounds  == 3      \* read errors, each followed by a backoff and a probe
MaxWriters == 2      \* processes calling DataLogger.log_data on one type
MaxCalls   == 2      \* log_data calls of each of them
MaxRows    == 1      \* index rows appended by each logger instance
MaxSide    == 3      \* width and height of a frame given to hottest_box
MaxHot     == 2      \* pixels of such a frame that differ from the background

\* ------------------------------------------------------ program constants
THERMAL_INTERVAL == 30
GPS_INTERVAL     == 60
RetrySleep       == 2
SerialTimeout    == 10
ReconnectDelay   == 50
LoopSleep        == 1
HOT_BOX_SIZE     == 24
colormaps == <<"JET", "TURBO", "HOT", "RAINBOW", "INFERNO", "PLASMA">>

VARIABLES
  \* acquisition loop (main)
  pc, now, ticks, running, windows, key,
  last_save, last_gps, cmap_idx, cmap_name,
  frame, colorized, ts, path_color,
  files, index, log,
  \* atomic_save call frame
  as_pc, as_img, as_path, as_ok, as_ret,
  \* bookkeeping used only to state properties
  as_pre, as_out, calls, results, fired, nFires, prevFire, lastFire,
  forced, lastDone, lastPoll, cmapKeyed,
  calibRaised, streak, events, profile,
  \* data root and the next_launch_dir calls of the logger instances
  root, sp, sn, sret, sseen, sconc, sorder,
  \* ArduinoReader.process_data: the line, the position, what was logged
  line, pd_pc, pd_out,
  \* ArduinoReader.run: position, fields of the object, the ports present
  r_pc, r_probe, r_origin, r_connected, r_port, r_serial, r_avail, r_now,
  r_probed, r_failed, r_ev, r_reads,
  \* the lines waiting on the open port, the samples logged, the number of
  \* events the ports may see
  r_in, r_logged, r_max,
  \* DataLogger.log_data: position and header flag of each caller, the file
  dl_pc, dl_hdr, dl_file, dl_done,
  \* index.csv of each session directory and the instances writing it
  ix_pc, ix_absent, ix_files, ix_rows,
  \* hottest_box: position, the arguments, the smoothed frame, the located
  \* maximum, the result of main.py's function and of the one in
  \* thermal_camera.py
  hb_pc, hb_metric, hb_box, hb_img, hb_loc, hb_roi, hb_alt,
  \* start of main() in each logger instance: position, whether the camera
  \* was opened, the records of the logger, what the interpreter wrote to
  \* stderr, the exit status
  m_pc, m_cam, m_log, m_err, m_status

loopVars == <<pc, now, ticks, running, windows, key, last_save, last_gps,
              cmap_idx, cmap_name, frame, colorized, ts, path_color,
              files, index, log>>
saveVars == <<as_pc, as_img, as_path, as_ok, as_ret>>
auxVars  == <<as_pre, as_out, calls, results, fired, nFires, prevFire,
              lastFire, forced, lastDone, lastPoll, cmapKeyed, calibRaised,
              streak,
              events>>
sessVars == <<root, sp, sn, sret, sseen, sconc, sorder>>
parseVars == <<line, pd_pc, pd_out>>
lineVars == <<r_in, r_logged>>
readerVars == <<r_pc, r_probe, r_origin, r_connected, r_port, r_serial,
                r_avail, r_now, r_probed, r_failed, r_ev, r_reads, lineVars,
                r_max>>
dlVars == <<dl_pc, dl_hdr, dl_file, dl_done>>
ixVars == <<ix_pc, ix_absent, ix_files, ix_rows>>
boxVars == <<hb_pc, hb_metric, hb_box, hb_img, hb_loc, hb_roi, hb_alt>>
startVars == <<m_pc, m_cam, m_log, m_err, m_status>>
vars == <<loopVars, saveVars, auxVars, profile, sessVars, parseVars,
          readerVars, dlVars, ixVars, boxVars, startVars>>

\* what the steps of the acquisition loop leave alone
notLoop == <<sessVars, parseVars, readerVars, dlVars, ixVars, boxVars,
           startVars>>
\* what the steps of next_launch_dir leave alone
notSess == <<loopVars, saveVars, auxVars, profile, parseVars, readerVars,
             dlVars, ixVars, boxVars,
           startVars>>
\* what process_data leaves alone
notParse == <<loopVars, saveVars, auxVars, profile, sessVars, readerVars,
              dlVars, ixVars, boxVars,
           startVars>>
\* what ArduinoReader.run leaves alone
notReader == <<loopVars, saveVars, auxVars, profile, sessVars, parseVars,
               dlVars, ixVars, boxVars, startVars, r_max>>
\* what DataLogger.log_data leaves alone
notLogger == <<loopVars, saveVars, auxVars, profile, sessVars, parseVars,
               readerVars, ixVars, boxVars,
           startVars>>
\* what the writers of index.csv leave alone
notIndex == <<loopVars, saveVars, auxVars, profile, sessVars, parseVars,
              readerVars, dlVars, boxVars,
           startVars>>
\* what the start of main() leaves alone, the session directory apart
notStart == <<loopVars, saveVars, auxVars, profile, parseVars, readerVars,
              dlVars, ixVars, boxVars>>
\* what hottest_box leaves alone
notBox == <<loopVars, saveVars, auxVars, profile, sessVars, parseVars,
            readerVars, dlVars, ixVars,
           startVars>>

\* ------------------------------------------------------------ file system
TmpName == [ts |-> 0, tag |-> ".tmp_"]
Absent  == [id |-> 0, kind |-> "none", st |-> "absent"]
Empty   == [id |-> 0, kind |-> "none", st |-> "empty"]
NoImg   == [id |-> 0, kind |-> "none"]
NoName  == [ts |-> 0, tag |-> ""]

FileAt(fs, n) == IF n \in DOMAIN fs THEN fs[n] ELSE Absent

WriteFile(fs, n, c) == [m \in (DOMAIN fs) \cup {n} |-> IF m = n THEN c ELSE fs[m]]

RemoveFile(fs, n) == [m \in (DOMAIN fs) \ {n} |-> fs[m]]

Replace(fs, src, dst) == RemoveFile(WriteFile(fs, dst, fs[src]), src)

Content(img, st) == [id |-> img.id, kind |-> img.kind, st |-> st]

\* ------------------------------------------------------------- helpers
utcstamp(t) == t \div 10

CalibSteps == {"none", "capture_frame16", "to_celsius_from_tlinear",
               "to_display_8bit_from_16"}

NoFrame == [id |-> 0, mode |-> "none", units |-> "none", metric |-> "none",
            gray8 |-> "none", frame16 |-> "None"]

\* except-branch that resets only what the failed step left unset
CaptureFrame_partial(raise, id) ==
  IF raise = "none"
  THEN [id |-> id, mode |-> "radiometric", units |-> "C",
        metric |-> "celsius", gray8 |-> "display8_from_16", frame16 |-> "raw16"]
  ELSE [id |-> id, mode |-> "8bit", units |-> "raw",
        metric |-> IF raise = "to_display_8bit_from_16" THEN "celsius" ELSE "gray8",
        gray8 |-> "capture_frame",
        frame16 |-> IF raise = "capture_frame16" THEN "None" ELSE "raw16"]

\* main.py 191-201: radiometry first, 8-bit fallback when any step raises
CaptureFrame(raise, id) ==
  IF raise = "none"
  THEN [id |-> id, mode |-> "radiometric", units |-> "C",
        metric |-> "celsius", gray8 |-> "display8_from_16", frame16 |-> "raw16"]
  ELSE [id |-> id, mode |-> "8bit", units |-> "raw",
        metric |-> "gray8", gray8 |-> "capture_frame", frame16 |-> "None"]

LoopCond_forever(r) == TRUE

\* main.py 188: while running
LoopCond(r) == r

GateFires_strict(t, ls) == t - ls > THERMAL_INTERVAL

\* main.py 239: if time.time() - last_save >= THERMAL_INTERVAL
GateFires(t, ls) == t - ls >= THERMAL_INTERVAL

ForceSave_ignored(k, ls) == ls

\* main.py 235-236: elif key == ord('s'): last_save = 0
ForceSave(k, ls) == IF k = "s" THEN 0 ELSE ls

Rotate_stay(i) == i

\* main.py 234, 289: (cmap_idx + 1) % len(colormaps)
Rotate(i) == (i + 1) % Len(colormaps)

SaveRaw_always(f) == TRUE

\* main.py 249: if frame16 is not None
SaveRaw(f) == f.frame16 # "None"

WriteTarget_inplace(tmp, final) == final

\* main.py 92/94: cv2.imwrite(tmp, img)
WriteTarget(tmp, final) == tmp

\* os.path.getsize of a file in state st
SizeOf(st) == IF st = "empty" THEN 0 ELSE 1

\* main.py 95: not (not ok or os.path.getsize(tmp) == 0)
SizeCheck(ok, st) == ok /\ SizeOf(st) # 0

ProbeOk_none(st) == TRUE

\* main.py 97-98: cv2.imread(tmp) is not None
ProbeOk(st) == st = "valid"

EncoderOutcomes ==
  { [ok |-> TRUE,  st |-> "valid"],
    [ok |-> TRUE,  st |-> "empty"],
    [ok |-> TRUE,  st |-> "corrupt"],
    [ok |-> FALSE, st |-> "partial"] }

Keys == {"none", "q", "c", "s"}

NoFix == [lat |-> "", lon |-> ""]
Fix   == [lat |-> "37.5", lon |-> "-122.3"]

\* what gps.read() finds on the serial port: no byte waiting; a complete
\* $GPRMC/$GPGGA sentence; a complete line of another kind; a $GPRMC/$GPGGA
\* line pynmea2 rejects; part of a line and no newline before the timeout;
\* an I/O error of in_waiting or of readline()
SerialConds == {"idle", "sentence", "other_line", "unparsable", "timeout",
                "poll_error", "read_error"}

NotRead == [g |-> NoFix, wait |-> 0, raised |-> FALSE]

Raised == [g |-> NoFix, wait |-> 0, raised |-> TRUE]

\* main.py 108-131: GPSReader.__init__ leaves ser = None when the port
\* cannot be opened; read() returns the fix, or None
GPSRead(ser, c) ==
  IF ser = "None" THEN NotRead
  ELSE IF c = "poll_error" THEN Raised
  ELSE IF c = "idle" THEN NotRead
  ELSE IF c = "read_error" THEN Raised
  ELSE IF c = "timeout"
       THEN [g |-> NoFix, wait |-> SerialTimeout, raised |-> FALSE]
  ELSE IF c = "sentence" THEN [g |-> Fix, wait |-> 0, raised |-> FALSE]
  ELSE NotRead

Attach_latonly(g) == [lat |-> IF g # NoFix THEN g.lat ELSE "", lon |-> ""]

\* main.py 256-257: lat = g["lat"] if g else ""; lon = g["lon"] if g else ""
Attach(g) == [lat |-> IF g # NoFix THEN g.lat ELSE "",
              lon |-> IF g # NoFix THEN g.lon ELSE ""]

\* the conditions under which read() does anything an idle port does not
Eventful(ser, c) == GPSRead(ser, c) # NotRead

\* the runs explored: how many iterations, how many environment events and
\* of which kinds
Profiles ==
  { [ticks |-> MaxTicks, events |-> MaxEvents,
     kinds |-> {"raise", "key", "encoder", "gps"}, ser |-> "open"],
    [ticks |-> StreakTicks, events |-> StreakTicks, kinds |-> {"raise"},
     ser |-> "None"],
    [ticks |-> CycleTicks, events |-> 1, kinds |-> {"raise"},
     ser |-> "None"] }

NoProfile == [ticks |-> 0, events |-> 0, kinds |-> {}, ser |-> "None"]

\* the environment may still produce n more events of the kinds ks
MayOccur(ks, n) ==
  n > 0 => (ks \subseteq profile.kinds /\ events + n <= profile.events)

NoCalls == [color |-> 0, raw |-> 0]
NoResults == [color |-> FALSE, raw |-> FALSE]

\* ------------------------------------------------------------------ Init
LoopStart ==
  /\ pc = "loop_top" /\ now = Epoch /\ ticks = 0
  /\ running = TRUE /\ windows = TRUE /\ key = "none"
  /\ last_save = 0 /\ last_gps = 0 /\ cmap_idx = 0 /\ cmap_name = "none"
  /\ frame = NoFrame /\ colorized = [id |-> 0, cmap |-> "none", src |-> "none"]
  /\ ts = 0 /\ path_color = NoName
  /\ files = [n \in {} |-> Empty]
  /\ index = <<>> /\ log = <<>>
  /\ as_pc = "idle" /\ as_img = NoImg /\ as_path = NoName
  /\ as_ok = FALSE /\ as_ret = FALSE
  /\ as_pre = Absent /\ as_out = [ok |-> FALSE, st |-> "none"]
  /\ calls = NoCalls /\ results = NoResults
  /\ fired = FALSE /\ nFires = 0 /\ prevFire = -1 /\ lastFire = -1
  /\ forced = FALSE /\ lastDone = -1 /\ lastPoll = -1 /\ cmapKeyed = FALSE
  /\ calibRaised = FALSE /\ streak = 0 /\ events = 0

\* binding of atomic_save's parameters at a call site (main.py 86)
CallAtomicSave(img, path) ==
  /\ as_pc' = "mkstemp"
  /\ as_img' = img
  /\ as_path' = path
  /\ as_ok' = FALSE /\ as_ret' = FALSE
  /\ as_pre' = FileAt(files, path)
  /\ as_out' = [ok |-> FALSE, st |-> "none"]

\* the call frame is gone once the caller has taken the result
ClearCall ==
  /\ as_pc' = "idle" /\ as_img' = NoImg /\ as_path' = NoName
  /\ as_ok' = FALSE /\ as_ret' = FALSE
  /\ as_pre' = Absent /\ as_out' = [ok |-> FALSE, st |-> "none"]

SelectName_afterkey(i, k) ==
  colormaps[(IF k = "c" THEN (i + 1) % Len(colormaps) ELSE i) + 1]

\* main.py 203: cmap_code, cmap_name = colormaps[cmap_idx], taken before
\* the key k of this iteration is read
SelectName(i, k) == colormaps[i + 1]

\* ------------------------------------------------- acquisition loop steps
\* main.py 188-236: loop test, capture, colorize, annotate, preview, key.
\* cam.capture_frame(), the 8-bit path the camera always provides, returns.
Tick ==
  /\ UNCHANGED <<notLoop, profile>>
  /\ pc = "loop_top" /\ LoopCond(running) /\ ticks < profile.ticks
  /\ \E raise \in CalibSteps, k \in Keys :
       /\ LET ks == (IF k # "none" THEN {"key"} ELSE {})
                     \cup (IF raise # "none" THEN {"raise"} ELSE {})
          IN  MayOccur(ks, Cardinality(ks))
              /\ events' = events + Cardinality(ks)
       /\ frame' = CaptureFrame(raise, ticks + 1)
       /\ streak' = IF calibRaised THEN streak + 1 ELSE 0
       /\ calibRaised' = (raise # "none")
       /\ cmap_name' = SelectName(cmap_idx, k)
       /\ colorized' = [id |-> ticks + 1, cmap |-> colormaps[cmap_idx + 1],
                        src |-> frame'.gray8]
       /\ key' = k
       /\ running' = IF k = "q" THEN FALSE ELSE running
       /\ cmap_idx' = IF k = "c" THEN Rotate(cmap_idx) ELSE cmap_idx
       /\ cmapKeyed' = (cmapKeyed \/ k = "c")
       /\ last_save' = ForceSave(k, last_save)
       /\ forced' = (forced \/ k = "s")
  /\ ticks' = ticks + 1
  /\ fired' = FALSE /\ calls' = NoCalls /\ results' = NoResults
  /\ pc' = "gate"
  /\ UNCHANGED <<now, windows, last_gps, ts, path_color, files, index, log,
                 saveVars, as_pre, as_out, nFires, prevFire, lastFire,
                 lastDone, lastPoll>>

\* main.py 239-245: the save gate; when it fires, stamp, name and first save
Gate ==
  /\ UNCHANGED <<notLoop, profile>>
  /\ pc = "gate"
  /\ IF GateFires(now, last_save)
     THEN /\ ts' = utcstamp(now)
          /\ path_color' = [ts |-> utcstamp(now), tag |-> cmap_name]
          /\ CallAtomicSave([id |-> colorized.id, kind |-> "color"],
                            [ts |-> utcstamp(now), tag |-> cmap_name])
          /\ calls' = [calls EXCEPT !.color = 1]
          /\ fired' = TRUE /\ nFires' = nFires + 1
          /\ prevFire' = lastFire /\ lastFire' = now
          /\ pc' = "save_color"
     ELSE /\ pc' = "gps_periodic"
          /\ UNCHANGED <<ts, path_color, saveVars, as_pre, as_out, calls,
                         fired, nFires, prevFire, lastFire>>
  /\ UNCHANGED <<now, ticks, running, windows, key, last_save, last_gps,
                 cmap_idx, cmap_name, frame, colorized, files, index, log,
                 results, calibRaised, streak, events, forced, lastDone,
                 lastPoll,
                 cmapKeyed>>

\* main.py 249-251 reached from either colour save: raw16 save if radiometric
AfterColor(committed) ==
  /\ results' = [results EXCEPT !.color = committed]
  /\ IF SaveRaw(frame)
     THEN /\ CallAtomicSave([id |-> frame.id, kind |-> "raw16"],
                            [ts |-> ts, tag |-> "raw16"])
          /\ calls' = [calls EXCEPT !.raw = 1]
          /\ pc' = "save_raw"
     ELSE /\ ClearCall
          /\ UNCHANGED calls
          /\ pc' = "record"

\* main.py 245-246: first colour save returned; on failure sleep and retry
ColorReturn ==
  /\ UNCHANGED <<notLoop, profile>>
  /\ pc = "save_color" /\ as_pc = "returned"
  /\ IF as_ret
     THEN /\ AfterColor(TRUE)
          /\ UNCHANGED now
     ELSE /\ now' = now + RetrySleep
          /\ CallAtomicSave(as_img, path_color)
          /\ calls' = [calls EXCEPT !.color = 2]
          /\ pc' = "save_retry"
          /\ UNCHANGED results
  /\ UNCHANGED <<ticks, running, windows, key, last_save, last_gps, cmap_idx,
                 cmap_name, frame, colorized, ts, path_color, files, index,
                 log, fired, nFires, prevFire, lastFire, forced, lastDone,
                 lastPoll,
                 cmapKeyed, calibRaised, streak, events>>

\* main.py 246: the retry returned; its result is not looked at
RetryReturn ==
  /\ UNCHANGED <<notLoop, profile>>
  /\ pc = "save_retry" /\ as_pc = "returned"
  /\ AfterColor(as_ret)
  /\ UNCHANGED <<now, ticks, running, windows, key, last_save, last_gps,
                 cmap_idx, cmap_name, frame, colorized, ts, path_color, files,
                 index, log, fired, nFires, prevFire, lastFire, forced,
                 lastDone, lastPoll, cmapKeyed, calibRaised, streak, events>>

\* main.py 251: the raw16 save returned; its result is not looked at
RawReturn ==
  /\ UNCHANGED <<notLoop, profile>>
  /\ pc = "save_raw" /\ as_pc = "returned"
  /\ results' = [results EXCEPT !.raw = as_ret]
  /\ ClearCall
  /\ pc' = "record"
  /\ UNCHANGED <<now, ticks, running, windows, key, last_save, last_gps,
                 cmap_idx, cmap_name, frame, colorized, ts, path_color, files,
                 index, log, calls, fired, nFires, prevFire, lastFire, forced,
                 lastDone, lastPoll, cmapKeyed, calibRaised, streak, events>>

\* main.py 253-290: GPS for this save, THERMAL log line, index row, rotate
Record ==
  /\ UNCHANGED <<notLoop, profile>>
  /\ pc = "record"
  /\ \E c \in SerialConds :
       LET poll == now - last_gps >= GPS_INTERVAL
           rd   == IF poll THEN GPSRead(profile.ser, c) ELSE NotRead
           g    == rd.g
           cost == IF poll /\ Eventful(profile.ser, c) THEN 1 ELSE 0
           row  == [utc_ts |-> ts, filename |-> path_color,
                    colormap |-> cmap_name, mode |-> frame.mode,
                    units |-> frame.units, lat |-> Attach(g).lat,
                    lon |-> Attach(g).lon]
       IN /\ ~rd.raised
          /\ MayOccur({"gps"}, cost)
          /\ events' = events + cost
          /\ now' = now + rd.wait
          /\ last_gps' = IF g # NoFix THEN now' ELSE last_gps
          /\ log' = Append(log, [kind |-> "THERMAL", ts |-> ts,
                                 cmap |-> cmap_name, file |-> path_color,
                                 mode |-> frame.mode, lat |-> Attach(g).lat,
                                 lon |-> Attach(g).lon])
          /\ index' = Append(index, row)
  /\ cmap_idx' = Rotate(cmap_idx)
  /\ last_save' = now'
  /\ lastDone' = now'
  /\ lastPoll' = IF now - last_gps >= GPS_INTERVAL THEN now ELSE lastPoll
  /\ pc' = "gps_periodic"
  /\ UNCHANGED <<ticks, running, windows, key, cmap_name, frame,
                 colorized, ts, path_color, files, saveVars, as_pre, as_out,
                 calls, results, fired, nFires, prevFire, lastFire, forced,
                 cmapKeyed, calibRaised, streak>>

\* main.py 292-299: periodic GPS line, then sleep; the next iteration starts
\* 0.1 s or a whole THERMAL_INTERVAL later
LoopEnd ==
  /\ UNCHANGED <<notLoop, profile>>
  /\ pc = "gps_periodic"
  /\ \E c \in SerialConds, dt \in {1, THERMAL_INTERVAL} :
       LET poll == now - last_gps >= GPS_INTERVAL
           rd   == IF poll THEN GPSRead(profile.ser, c) ELSE NotRead
           cost == IF poll /\ Eventful(profile.ser, c) THEN 1 ELSE 0
       IN /\ ~rd.raised
          /\ MayOccur({"gps"}, cost)
          /\ events' = events + cost
          /\ IF poll
             THEN /\ ts' = utcstamp(now)
                  /\ log' = Append(log, [kind |-> "GPS", ts |-> utcstamp(now),
                                         cmap |-> "", file |-> NoName,
                                         mode |-> "", lat |-> rd.g.lat,
                                         lon |-> rd.g.lon])
                  /\ last_gps' = now + rd.wait
             ELSE UNCHANGED <<ts, log, last_gps>>
          /\ now' = now + rd.wait + dt
  /\ lastPoll' = IF now - last_gps >= GPS_INTERVAL THEN now ELSE lastPoll
  /\ pc' = "loop_top"
  /\ UNCHANGED <<ticks, running, windows, key, last_save, cmap_idx, cmap_name,
                 frame, colorized, path_color, files, index, saveVars,
                 as_pre, as_out, calls, results, fired, nFires, prevFire,
                 lastFire, forced, lastDone, cmapKeyed, calibRaised, streak>>

\* main.py 254: gps.read() raises out of the save block; nothing catches it
\* in main, which ends with the exception
GpsRaiseAtSave ==
  /\ UNCHANGED <<notLoop, profile>>
  /\ pc = "record" /\ now - last_gps >= GPS_INTERVAL
  /\ \E c \in SerialConds : GPSRead(profile.ser, c).raised
  /\ pc' = "crashed"
  /\ UNCHANGED <<now, ticks, running, windows, key, last_save, last_gps,
                 cmap_idx, cmap_name, frame, colorized, ts, path_color,
                 files, index, log, saveVars, auxVars>>

\* main.py 294-295: gps.read() raises out of the periodic GPS block
GpsRaiseAtPoll ==
  /\ UNCHANGED <<notLoop, profile>>
  /\ pc = "gps_periodic" /\ now - last_gps >= GPS_INTERVAL
  /\ \E c \in SerialConds : GPSRead(profile.ser, c).raised
  /\ ts' = utcstamp(now)
  /\ pc' = "crashed"
  /\ UNCHANGED <<now, ticks, running, windows, key, last_save, last_gps,
                 cmap_idx, cmap_name, frame, colorized, path_color,
                 files, index, log, saveVars, auxVars>>

\* main.py 188, 301-303: loop test fails, windows destroyed, main returns
Shutdown ==
  /\ UNCHANGED <<notLoop, profile>>
  /\ pc = "loop_top" /\ ~LoopCond(running)
  /\ windows' = FALSE
  /\ pc' = "done"
  /\ UNCHANGED <<now, ticks, running, key, last_save, last_gps, cmap_idx,
                 cmap_name, frame, colorized, ts, path_color, files, index,
                 log, saveVars, auxVars>>

\* ------------------------------------------------------ atomic_save steps
InSave == pc \in {"save_color", "save_retry", "save_raw"}

asFrame == <<now, ticks, running, windows, key, last_save, last_gps, cmap_idx,
             cmap_name, frame, colorized, ts, path_color, index, log, pc,
             as_img, as_path, as_pre, calls, results, fired, nFires,
             prevFire, lastFire, forced, lastDone, lastPoll, cmapKeyed,
             calibRaised, streak>>

\* main.py 87-89: tempfile.mkstemp in the directory of final_path
AS_mkstemp ==
  /\ UNCHANGED <<notLoop, profile>>
  /\ InSave /\ as_pc = "mkstemp"
  /\ files' = WriteFile(files, TmpName, Empty)
  /\ as_pc' = "imwrite"
  /\ UNCHANGED <<asFrame, as_ok, as_ret, as_out, events>>

\* main.py 91-94: cv2.imwrite has started and part of the bytes are on disk
AS_imwrite_begin ==
  /\ UNCHANGED <<notLoop, profile>>
  /\ InSave /\ as_pc = "imwrite"
  /\ files' = WriteFile(files, WriteTarget(TmpName, as_path),
                        Content(as_img, "partial"))
  /\ as_pc' = "imwriting"
  /\ UNCHANGED <<asFrame, as_ok, as_ret, as_out, events>>

\* main.py 91-94: cv2.imwrite returns
AS_imwrite_end ==
  /\ UNCHANGED <<notLoop, profile>>
  /\ InSave /\ as_pc = "imwriting"
  /\ \E out \in EncoderOutcomes :
       /\ MayOccur({"encoder"}, IF out.st # "valid" THEN 1 ELSE 0)
       /\ events' = IF out.st # "valid" THEN events + 1 ELSE events
       /\ files' = WriteFile(files, WriteTarget(TmpName, as_path),
                             IF out.st = "empty" THEN Empty
                             ELSE Content(as_img, out.st))
       /\ as_ok' = out.ok
       /\ as_out' = out
  /\ as_pc' = "check"
  /\ UNCHANGED <<asFrame, as_ret>>

\* main.py 95-96 (and the finally clause on return)
AS_check ==
  /\ UNCHANGED <<notLoop, profile>>
  /\ InSave /\ as_pc = "check"
  /\ IF SizeCheck(as_ok, files[TmpName].st)
     THEN /\ as_pc' = "probe"
          /\ UNCHANGED <<files, as_ret>>
     ELSE /\ files' = RemoveFile(files, TmpName)
          /\ as_ret' = FALSE
          /\ as_pc' = "returned"
  /\ UNCHANGED <<asFrame, as_ok, as_out, events>>

\* main.py 97-99 (and the finally clause on return)
AS_probe ==
  /\ UNCHANGED <<notLoop, profile>>
  /\ InSave /\ as_pc = "probe"
  /\ IF ProbeOk(files[TmpName].st)
     THEN /\ as_pc' = "replace"
          /\ UNCHANGED <<files, as_ret>>
     ELSE /\ files' = RemoveFile(files, TmpName)
          /\ as_ret' = FALSE
          /\ as_pc' = "returned"
  /\ UNCHANGED <<asFrame, as_ok, as_out, events>>

\* main.py 100-106: os.replace(tmp, final_path); return True; finally
AS_replace ==
  /\ UNCHANGED <<notLoop, profile>>
  /\ InSave /\ as_pc = "replace"
  /\ files' = Replace(files, TmpName, as_path)
  /\ as_ret' = TRUE
  /\ as_pc' = "returned"
  /\ UNCHANGED <<asFrame, as_ok, as_out, events>>

\* the process is killed (SIGKILL) at whatever step it is in
Kill ==
  /\ UNCHANGED <<notLoop, profile>>
  /\ pc \notin {"done", "killed"}
  /\ pc' = "killed"
  /\ UNCHANGED <<now, ticks, running, windows, key, last_save, last_gps,
                 cmap_idx, cmap_name, frame, colorized, ts, path_color,
                 files, index, log, saveVars, auxVars>>

\* ------------------------------------------------------- next_launch_dir
\* A directory entry is [name, dir]; a name is [pre, num, suf]: the text
\* before the digits, the digits, and the text after them.
Procs == 1..MaxRuns

LaunchName(digits) == [pre |-> "launch", num |-> digits, suf |-> ""]

NoEntryName == [pre |-> "", num |-> <<>>, suf |-> ""]

RECURSIVE Digits(_)
\* decimal digits of n, most significant first
Digits(n) == IF n < 10 THEN <<n>> ELSE Append(Digits(n \div 10), n % 10)

\* main.py 66: f"{n:02d}" pads to two digits and never truncates
Fmt02(n) == IF n < 10 THEN <<0, n>> ELSE Digits(n)

RECURSIVE ParseInt(_)
\* main.py 62: int(m.group(1))
ParseInt(d) == IF Len(d) = 0 THEN 0
               ELSE 10 * ParseInt(SubSeq(d, 1, Len(d) - 1)) + d[Len(d)]

\* main.py 58-60: isdir and re.fullmatch(r"launch(\d{2})", name)
Matches(e) ==
  e.dir /\ e.name.pre = "launch" /\ Len(e.name.num) = 2 /\ e.name.suf = ""

\* main.py 56-64: nums
ScanNums(r) == {ParseInt(e.name.num) : e \in {x \in r : Matches(x)}}

SetMax(S) == CHOOSE m \in S : \A x \in S : x <= m

NextNum_count(nums) == Cardinality(nums) + 1

\* main.py 65: n = max(nums) + 1 if nums else 1
NextNum(nums) == IF nums # {} THEN SetMax(nums) + 1 ELSE 1

Names(r) == {e.name : e \in r}

LaunchDirs(S) == {[name |-> LaunchName(Fmt02(k)), dir |-> TRUE] : k \in S}

OtherDir  == [name |-> [pre |-> "calib", num |-> <<>>, suf |-> ""], dir |-> TRUE]
BackupDir == [name |-> [pre |-> "launch", num |-> <<0, 9>>, suf |-> "_bak"],
              dir |-> TRUE]
PlainFile == [name |-> LaunchName(<<0, 8>>), dir |-> FALSE]

\* data roots a run may find: sessions 1..k already there, or some deleted,
\* with or without unrelated entries
InitRoots ==
  { LaunchDirs(S) \cup X :
      S \in {1..k : k \in {0, 1, 7, 98, 99}} \cup {{1, 3}},
      X \in SUBSET {OtherDir, BackupDir, PlainFile} }

SessIdle ==
  /\ root = {}
  /\ sp = [p \in Procs |-> "start"]
  /\ sn = [p \in Procs |-> 0]
  /\ sret = [p \in Procs |-> NoEntryName]
  /\ sseen = [p \in Procs |-> {}]
  /\ sconc = [p \in Procs |-> {}]
  /\ sorder = <<>>

\* main.py 55-65: list the root, keep the launchNN directories, pick n
Scan(p) ==
  /\ UNCHANGED notSess
  /\ sp[p] = "start"
  /\ sn' = [sn EXCEPT ![p] = NextNum(ScanNums(root))]
  /\ sseen' = [sseen EXCEPT ![p] = root]
  /\ sconc' = [sconc EXCEPT ![p] = {q \in Procs : sp[q] = "scanned"}]
  /\ sp' = [sp EXCEPT ![p] = "scanned"]
  /\ UNCHANGED <<root, sret, sorder>>

\* main.py 66-68: os.makedirs(path, exist_ok=True); return path
Create(p) ==
  /\ UNCHANGED notSess
  /\ sp[p] = "scanned"
  /\ LET nm == LaunchName(Fmt02(sn[p]))
     IN IF [name |-> nm, dir |-> FALSE] \in root
        THEN \* FileExistsError: the name is taken by something not a directory
             /\ sp' = [sp EXCEPT ![p] = "raised"]
             /\ UNCHANGED <<root, sret, sorder>>
        ELSE /\ root' = root \cup {[name |-> nm, dir |-> TRUE]}
             /\ sret' = [sret EXCEPT ![p] = nm]
             /\ sorder' = Append(sorder, p)
             /\ sp' = [sp EXCEPT ![p] = "returned"]
  /\ UNCHANGED <<sn, sseen, sconc>>

\* ---------------------------------------- ArduinoReader.process_data
\* A line is a sequence of symbols: the words DATA, GPS, RTC and the like
\* as one symbol each, and the characters of the numeric fields one by one.
Comma == ","

DigitChars == <<"0", "1", "2", "3", "4", "5", "6", "7", "8", "9">>

IsDigit(c) == \E i \in 1..10 : DigitChars[i] = c

DigitVal(c) == (CHOOSE i \in 1..10 : DigitChars[i] = c) - 1

RECURSIVE Split(_)
\* arduino_reader.py 49: line.split(',')
Split(l) ==
  IF \A i \in 1..Len(l) : l[i] # Comma THEN <<l>>
  ELSE LET k == CHOOSE i \in 1..Len(l) :
                  l[i] = Comma /\ \A j \in 1..(i - 1) : l[j] # Comma
       IN <<SubSeq(l, 1, k - 1)>> \o Split(SubSeq(l, k + 1, Len(l)))

\* the text without its sign
Unsigned(f) == IF Len(f) > 0 /\ f[1] = "-" THEN Tail(f) ELSE f

Sign(f) == IF Len(f) > 0 /\ f[1] = "-" THEN -1 ELSE 1

DotAt(u) == {i \in 1..Len(u) : u[i] = "."}

\* float(text) does not raise ValueError
IsFloat(f) ==
  LET u == Unsigned(f)
  IN /\ Cardinality(DotAt(u)) <= 1
     /\ \A i \in 1..Len(u) : IsDigit(u[i]) \/ u[i] = "."
     /\ \E i \in 1..Len(u) : IsDigit(u[i])

DigitsOf(u) == [i \in 1..Len(u) |-> DigitVal(u[i])]

\* float(text), in thousandths
FloatMilli(f) ==
  LET u    == Unsigned(f)
      d    == IF DotAt(u) = {} THEN Len(u) + 1 ELSE CHOOSE i \in DotAt(u) : TRUE
      int  == DigitsOf(SubSeq(u, 1, d - 1))
      frac == DigitsOf(SubSeq(u, d + 1, Len(u)))
      pad  == SubSeq(frac \o <<0, 0, 0>>, 1, 3)
  IN Sign(f) * (1000 * ParseInt(int) + ParseInt(pad))

\* int(text) does not raise ValueError
IsInt(f) ==
  LET u == Unsigned(f)
  IN Len(u) > 0 /\ \A i \in 1..Len(u) : IsDigit(u[i])

IntVal(f) == Sign(f) * ParseInt(DigitsOf(Unsigned(f)))

HasMarker_any(parts) == Len(parts) >= 2

\* arduino_reader.py 50: not (len(parts) < 2 or parts[0] != 'DATA')
HasMarker(parts) == Len(parts) >= 2 /\ parts[1] = <<"DATA">>

Nothing == [raised |-> FALSE, out |-> <<>>]

\* arduino_reader.py 49-73: the body of the try block
ProcessBody(l) ==
  LET parts == Split(l)
  IN IF ~HasMarker(parts) THEN Nothing
     ELSE IF parts[2] = <<"GPS">> /\ Len(parts) >= 7
     THEN IF /\ IsFloat(parts[4]) /\ IsFloat(parts[5]) /\ IsFloat(parts[6])
             /\ IsInt(parts[7])
          THEN [raised |-> FALSE,
                out |-> << [type |-> "gps", timestamp |-> parts[3],
                            latitude |-> FloatMilli(parts[4]),
                            longitude |-> FloatMilli(parts[5]),
                            altitude |-> FloatMilli(parts[6]),
                            satellites |-> IntVal(parts[7])] >>]
          ELSE [raised |-> TRUE, out |-> <<>>]
     ELSE IF parts[2] = <<"RTC">> /\ Len(parts) >= 3
     THEN [raised |-> FALSE,
           out |-> << [type |-> "time", timestamp |-> parts[3]] >>]
     ELSE Nothing

\* arduino_reader.py 46-76: try ... except Exception: print
process_data(l) ==
  [escaped |-> FALSE,
   out |-> IF ProcessBody(l).raised THEN <<>> ELSE ProcessBody(l).out]

NoOut == [escaped |-> FALSE, out |-> <<>>]

ParseIdle == line = <<>> /\ pd_pc = "idle" /\ pd_out = NoOut

Join(fs) ==
  LET RECURSIVE J(_)
      J(k) == IF k = 0 THEN <<>>
              ELSE IF k = 1 THEN fs[1]
              ELSE J(k - 1) \o <<Comma>> \o fs[k]
  IN J(Len(fs))

StampTexts == { <<"20240101120000">>, <<"ts">> }
LatTexts   == { <<"3", "7", ".", "5">>, <<"1">>, <<"north">>, <<>> }
LonTexts   == { <<"-", "1", "2", "2", ".", "3">>, <<"2">>, <<"-">> }
AltTexts   == { <<"1", "0", ".", "0">>, <<".">>, <<"1", "0", ".">> }
SatTexts   == { <<"8">>, <<"8", ".", "0">>, <<"-", "1">>, <<"x">> }

\* the lines fed to process_data: up to MaxFields fields
InputLines ==
  { Join(SubSeq(<<f1, f2, f3, f4, f5, f6, f7>>
                  \o [i \in 1..(MaxFields - 7) |-> <<"x">>], 1, n)) :
      f1 \in { <<"DATA">>, <<"data">>, <<>> },
      f2 \in { <<"GPS">>, <<"RTC">>, <<"IMU">> },
      f3 \in StampTexts, f4 \in LatTexts, f5 \in LonTexts,
      f6 \in AltTexts, f7 \in SatTexts,
      n \in 0..MaxFields }

\* arduino_reader.py 90: self.process_data(line)
ProcessLine ==
  /\ UNCHANGED notParse
  /\ pd_pc = "start"
  /\ pd_out' = process_data(line)
  /\ pd_pc' = "done"
  /\ UNCHANGED line

\* ------------------------------------------------- ArduinoReader.run
\* arduino_reader.py 30-35
possible_ports == <<"/dev/ttyUSB0", "/dev/ttyUSB1", "/dev/ttyACM0",
                    "/dev/ttyACM1">>

Ports == {possible_ports[i] : i \in 1..Len(possible_ports)}

NoSerial == [port |-> "None", alive |-> FALSE]

MarkDisconnected_keep(c) == c

\* arduino_reader.py 99: self.connected = False
MarkDisconnected(c) == FALSE

\* arduino_reader.py 17-26: serial.Serial(port) succeeds iff the port is there
ConnectOk(port, avail) == port \in avail

ReaderReset ==
  /\ r_probe = 0 /\ r_origin = "none" /\ r_connected = FALSE
  /\ r_port = possible_ports[1] /\ r_serial = NoSerial
  /\ r_now = 0 /\ r_probed = <<>> /\ r_failed = 0 /\ r_ev = 0 /\ r_reads = 0
  /\ r_in = <<>> /\ r_logged = <<>>

ReaderIdle == r_pc = "idle" /\ r_avail = {} /\ r_max = 0 /\ ReaderReset

\* arduino_reader.py 80: if not self.connected and not self.find_arduino()
RunStart ==
  /\ UNCHANGED notReader
  /\ r_pc = "start"
  /\ IF ~r_connected
     THEN r_pc' = "probe" /\ r_probe' = 1 /\ r_origin' = "startup"
     ELSE r_pc' = "loop" /\ UNCHANGED <<r_probe, r_origin>>
  /\ r_probed' = <<>>
  /\ UNCHANGED <<r_connected, r_port, r_serial, r_avail, r_now, r_failed,
                 r_ev, r_reads, lineVars>>

\* arduino_reader.py 37-44 with 17-26: one pass of the for loop of
\* find_arduino, and what its caller does when it returns (80-84, 101)
Probe ==
  /\ UNCHANGED notReader
  /\ r_pc = "probe"
  /\ r_port' = possible_ports[r_probe]
  /\ r_probed' = Append(r_probed, possible_ports[r_probe])
  /\ IF ConnectOk(possible_ports[r_probe], r_avail)
     THEN /\ r_serial' = [port |-> possible_ports[r_probe], alive |-> TRUE]
          /\ r_connected' = TRUE
          /\ r_probe' = 0
          /\ r_pc' = "loop"
          /\ r_in' = <<>>
          /\ UNCHANGED r_failed
     ELSE /\ UNCHANGED <<r_serial, r_connected, r_in>>
          /\ IF r_probe < Len(possible_ports)
             THEN r_probe' = r_probe + 1 /\ r_pc' = "probe"
                  /\ UNCHANGED r_failed
             ELSE /\ r_probe' = 0
                  /\ r_pc' = IF r_origin = "startup" THEN "returned" ELSE "loop"
                  /\ r_failed' = r_failed + 1
  /\ UNCHANGED <<r_origin, r_avail, r_now, r_ev, r_reads, r_logged>>

\* lines the device sends: a GPS record, a clock record, a GPS record that
\* is too short
StreamLines ==
  { Join(<< <<"DATA">>, <<"GPS">>, <<"20240101120000">>,
            <<"3", "7", ".", "5">>, <<"-", "1", "2", "2", ".", "3">>,
            <<"1", "0", ".", "0">>, <<"8">> >>),
    Join(<< <<"DATA">>, <<"RTC">>, <<"20240101120000">> >>),
    Join(<< <<"DATA">>, <<"GPS">>, <<"ts">>, <<"1">>, <<"2">> >>) }

\* arduino_reader.py 90 with 46-76: what process_data logs for each of them
Logged == [l \in StreamLines |-> process_data(l).out]

LogLine_drop(l) == <<>>

\* arduino_reader.py 90: self.process_data(line)
LogLine(l) == Logged[l]

\* arduino_reader.py 86-91: a pass of the while loop without an exception
\* when nothing is waiting (in_waiting is 0)
ReadOk ==
  /\ UNCHANGED notReader
  /\ r_pc = "loop" /\ r_serial.alive /\ r_in = <<>> /\ r_reads < MaxReads
  /\ r_reads' = r_reads + 1
  /\ r_now' = r_now + LoopSleep
  /\ UNCHANGED <<r_pc, r_probe, r_origin, r_connected, r_port, r_serial,
                 r_avail, r_probed, r_failed, r_ev, r_in, r_logged>>

\* arduino_reader.py 86-91: such a pass when a line is waiting: readline,
\* decode, strip, process_data
ReadLine ==
  /\ UNCHANGED notReader
  /\ r_pc = "loop" /\ r_serial.alive /\ r_in # <<>>
  /\ r_in' = Tail(r_in)
  /\ r_logged' = r_logged \o LogLine(Head(r_in))
  /\ r_now' = r_now + LoopSleep
  /\ UNCHANGED <<r_pc, r_probe, r_origin, r_connected, r_port, r_serial,
                 r_avail, r_probed, r_failed, r_ev, r_reads>>

\* arduino_reader.py 96-99: in_waiting, readline or decode raised
ReadError ==
  /\ UNCHANGED notReader
  /\ r_pc = "loop" /\ r_now \div ReconnectDelay < MaxRounds
  /\ IF r_serial.alive
     THEN r_ev < r_max /\ r_ev' = r_ev + 1
     ELSE UNCHANGED r_ev
  /\ r_connected' = MarkDisconnected(r_connected)
  /\ r_pc' = "sleep"
  /\ UNCHANGED <<r_probe, r_origin, r_port, r_serial, r_avail, r_now,
                 r_probed, r_failed, r_reads, lineVars>>

AfterBackoff_loop == "loop"

\* arduino_reader.py 101: self.find_arduino() follows the sleep
AfterBackoff == "probe"

\* arduino_reader.py 100-101: time.sleep(5), then find_arduino()
Backoff ==
  /\ UNCHANGED notReader
  /\ r_pc = "sleep"
  /\ r_now' = r_now + ReconnectDelay
  /\ r_pc' = AfterBackoff /\ r_probe' = 1 /\ r_origin' = "reconnect"
  /\ r_probed' = <<>>
  /\ UNCHANGED <<r_connected, r_port, r_serial, r_avail, r_failed, r_ev,
                 r_reads, lineVars>>

\* arduino_reader.py 93-95, 103-104: KeyboardInterrupt in the try block
StopRequest ==
  /\ UNCHANGED notReader
  /\ r_pc = "loop"
  /\ r_serial' = NoSerial
  /\ r_pc' = "stopped"
  /\ UNCHANGED <<r_probe, r_origin, r_connected, r_port, r_avail, r_now,
                 r_probed, r_failed, r_ev, r_reads, lineVars>>

\* a device is unplugged: the port vanishes and a handle open on it is dead
Unplug(p) ==
  /\ UNCHANGED notReader
  /\ r_pc \in {"start", "probe", "loop", "sleep"}
  /\ p \in r_avail /\ r_ev < r_max
  /\ r_avail' = r_avail \ {p}
  /\ r_serial' = IF r_serial.port = p THEN [r_serial EXCEPT !.alive = FALSE]
                 ELSE r_serial
  /\ r_in' = IF r_serial.port = p THEN <<>> ELSE r_in
  /\ r_ev' = r_ev + 1
  /\ UNCHANGED <<r_pc, r_probe, r_origin, r_connected, r_port, r_now,
                 r_probed, r_failed, r_reads, r_logged>>

\* a device is plugged in
Plug(p) ==
  /\ UNCHANGED notReader
  /\ r_pc \in {"start", "probe", "loop", "sleep"}
  /\ p \notin r_avail /\ r_ev < r_max
  /\ r_avail' = r_avail \cup {p}
  /\ r_ev' = r_ev + 1
  /\ UNCHANGED <<r_pc, r_probe, r_origin, r_connected, r_port, r_serial,
                 r_now, r_probed, r_failed, r_reads, lineVars>>

\* a line arrives on the port the reader has open and reads from
Deliver(l) ==
  /\ UNCHANGED notReader
  /\ r_pc = "loop" /\ r_serial.alive /\ r_ev < r_max
  /\ r_in' = Append(r_in, l)
  /\ r_ev' = r_ev + 1
  /\ UNCHANGED <<r_pc, r_probe, r_origin, r_connected, r_port, r_serial,
                 r_avail, r_now, r_probed, r_failed, r_reads, r_logged>>

\* ------------------------------------------------- DataLogger.log_data
Writers == 1..MaxWriters

HeaderRow == [kind |-> "header", by |-> 0, k |-> 0]

NoFile == [exists |-> FALSE, lines |-> <<>>]

\* data_logger.py 38: header=not os.path.exists(filename)
NeedsHeader(f) == ~f.exists

LoggerReset ==
  /\ dl_pc = [w \in Writers |-> "idle"]
  /\ dl_hdr = [w \in Writers |-> FALSE]
  /\ dl_done = [w \in Writers |-> 0]

LoggerIdle == LoggerReset /\ dl_file = NoFile

\* data_logger.py 20-38: the call, up to the evaluation of the arguments of
\* to_csv
LogCheck(w) ==
  /\ UNCHANGED notLogger
  /\ dl_pc[w] = "idle" /\ dl_done[w] < MaxCalls
  /\ dl_hdr' = [dl_hdr EXCEPT ![w] = NeedsHeader(dl_file)]
  /\ dl_pc' = [dl_pc EXCEPT ![w] = "open"]
  /\ UNCHANGED <<dl_file, dl_done>>

\* data_logger.py 38: to_csv opens the file with mode='a'
LogOpen(w) ==
  /\ UNCHANGED notLogger
  /\ dl_pc[w] = "open"
  /\ dl_file' = [dl_file EXCEPT !.exists = TRUE]
  /\ dl_pc' = [dl_pc EXCEPT ![w] = "write"]
  /\ UNCHANGED <<dl_hdr, dl_done>>

\* data_logger.py 38-40: the buffered text of to_csv reaches the file in one
\* append when the handle is closed; log_data returns
LogWrite(w) ==
  /\ UNCHANGED notLogger
  /\ dl_pc[w] = "write"
  /\ LET row == [kind |-> "row", by |-> w, k |-> dl_done[w] + 1]
     IN dl_file' = [dl_file EXCEPT !.lines =
                      @ \o (IF dl_hdr[w] THEN <<HeaderRow>> ELSE <<>>)
                        \o <<row>>]
  /\ dl_done' = [dl_done EXCEPT ![w] = @ + 1]
  /\ dl_pc' = [dl_pc EXCEPT ![w] = "idle"]
  /\ UNCHANGED dl_hdr

\* ------------------------------------------------- index.csv (main)
\* main.py 144-146: csv_path is index.csv in the directory returned
CsvDir(p) == sret[p]

IndexAt(fs, d) == IF d \in DOMAIN fs THEN fs[d] ELSE NoFile

\* main.py 157-163: open(csv_path, "w") and the header row
InitIndexFile(f) == [exists |-> TRUE, lines |-> <<HeaderRow>>]

\* main.py 278-286: open(csv_path, "a") and one row
AppendIndexRow(f, row) == [exists |-> TRUE, lines |-> Append(f.lines, row)]

PutIndex(fs, d, f) == [x \in (DOMAIN fs) \cup {d} |-> IF x = d THEN f ELSE fs[x]]

IndexReset ==
  /\ ix_pc = [p \in Procs |-> "wait"]
  /\ ix_absent = [p \in Procs |-> FALSE]
  /\ ix_rows = [p \in Procs |-> 0]

IndexIdle == IndexReset /\ ix_files = [d \in {} |-> NoFile]

\* main.py 156: if not os.path.exists(csv_path)
IndexCheck(p) ==
  /\ UNCHANGED <<notIndex, sessVars>>
  /\ sp[p] = "returned" /\ ix_pc[p] = "wait"
  /\ ix_absent' = [ix_absent EXCEPT ![p] = ~IndexAt(ix_files, CsvDir(p)).exists]
  /\ ix_pc' = [ix_pc EXCEPT ![p] = "init"]
  /\ UNCHANGED <<ix_files, ix_rows>>

\* main.py 157-163: the body of the if
IndexInit(p) ==
  /\ UNCHANGED <<notIndex, sessVars>>
  /\ ix_pc[p] = "init"
  /\ ix_files' = IF ix_absent[p]
                 THEN PutIndex(ix_files, CsvDir(p),
                               InitIndexFile(IndexAt(ix_files, CsvDir(p))))
                 ELSE ix_files
  /\ ix_pc' = [ix_pc EXCEPT ![p] = "loop"]
  /\ UNCHANGED <<ix_absent, ix_rows>>

\* main.py 278-286: the row of one save
IndexAppend(p) ==
  /\ UNCHANGED <<notIndex, sessVars>>
  /\ ix_pc[p] = "loop" /\ ix_rows[p] < MaxRows
  /\ ix_files' = PutIndex(ix_files, CsvDir(p),
                          AppendIndexRow(IndexAt(ix_files, CsvDir(p)),
                                         [kind |-> "row", by |-> p,
                                          k |-> ix_rows[p] + 1]))
  /\ ix_rows' = [ix_rows EXCEPT ![p] = @ + 1]
  /\ UNCHANGED <<ix_pc, ix_absent>>

\* -------------------------------------------------------------- hottest_box
\* A frame is a record [w, h, px]; px maps <<x, y>> to the pixel in column x
\* of row y.  float32 values are counted in sixteenths, so that the weights
\* of the 3x3 kernel, (1 2 1; 2 4 2; 1 2 1) / 16, are whole numbers.
Cells(w, h) == (0..(w - 1)) \X (0..(h - 1))

\* metric_img.astype(np.float32)
AsFloat32(m) == [m EXCEPT !.px = [c \in DOMAIN m.px |-> 16 * m.px[c]]]

\* cv2.BORDER_REFLECT_101, the border mode GaussianBlur uses by default
BorderInterpolate(p, len) ==
  IF len = 1 THEN 0
  ELSE IF p < 0 THEN -p
  ELSE IF p >= len THEN 2 * len - 2 - p
  ELSE p

\* the row pass of the separable kernel (0.25, 0.5, 0.25), times four
BlurRow(img, x, y) ==
    img.px[<<BorderInterpolate(x - 1, img.w), y>>]
  + 2 * img.px[<<x, y>>]
  + img.px[<<BorderInterpolate(x + 1, img.w), y>>]

\* cv2.GaussianBlur(img, (3, 3), 0): the column pass over the row pass; the
\* two factors of four divide the sixteenths away again
GaussianBlur(img) ==
  [img EXCEPT !.px =
     [c \in DOMAIN img.px |->
        (  BlurRow(img, c[1], BorderInterpolate(c[2] - 1, img.h))
         + 2 * BlurRow(img, c[1], c[2])
         + BlurRow(img, c[1], BorderInterpolate(c[2] + 1, img.h))) \div 16]]

\* position of a pixel when the frame is scanned row by row
Raster(c, w) == c[2] * w + c[1]

MaxLoc_last(img) ==
  CHOOSE c \in DOMAIN img.px :
    /\ \A d \in DOMAIN img.px : img.px[d] <= img.px[c]
    /\ \A d \in DOMAIN img.px :
         img.px[d] = img.px[c] => Raster(d, img.w) <= Raster(c, img.w)

\* the maxLoc of cv2.minMaxLoc: the first position, row by row, that holds
\* the largest value
MaxLoc(img) ==
  CHOOSE c \in DOMAIN img.px :
    /\ \A d \in DOMAIN img.px : img.px[d] <= img.px[c]
    /\ \A d \in DOMAIN img.px :
         img.px[d] = img.px[c] => Raster(c, img.w) <= Raster(d, img.w)

Max2(a, b) == IF a >= b THEN a ELSE b
Min2(a, b) == IF a <= b THEN a ELSE b

\* half = max(2, box // 2)
Half(box) == Max2(2, box \div 2)

ClipHigh_none(len, v) == v

\* min(w, cx + half), min(h, cy + half)
ClipHigh(len, v) == Min2(len, v)

\* img[y1:y2, x1:x2]
Slice(img, x1, y1, x2, y2) ==
  {c \in DOMAIN img.px : x1 <= c[1] /\ c[1] < x2 /\ y1 <= c[2] /\ c[2] < y2}

RECURSIVE SumPx(_, _)
SumPx(img, S) ==
  IF S = {} THEN 0
  ELSE LET c == CHOOSE d \in S : TRUE IN img.px[c] + SumPx(img, S \ {c})

\* roi.min(), roi.max(), roi.mean(); the mean is kept as sum and count
RoiMin(img, S) == CHOOSE v \in {img.px[c] : c \in S} : \A c \in S : v <= img.px[c]
RoiMax(img, S) == CHOOSE v \in {img.px[c] : c \in S} : \A c \in S : v >= img.px[c]
RoiMean(img, S) == [sum |-> SumPx(img, S), n |-> Cardinality(S)]

\* lines 78-84 of main.py, 43-50 of thermal_camera.py: the box around loc in
\* the frame located, and the statistics of the region of src it covers
BoxAround(located, src, loc, box) ==
  LET cx == loc[1]
      cy == loc[2]
      h == located.h
      w == located.w
      half == Half(box)
      x1 == Max2(0, cx - half)
      y1 == Max2(0, cy - half)
      x2 == ClipHigh(w, cx + half)
      y2 == ClipHigh(h, cy + half)
      roi == Slice(src, x1, y1, x2, y2)
  IN [min |-> RoiMin(src, roi), max |-> RoiMax(src, roi),
      mean |-> RoiMean(src, roi), x1 |-> x1, y1 |-> y1, x2 |-> x2, y2 |-> y2]

\* main.py 76-84: img is by now the blurred frame, so loc, the shape and
\* the region of interest are all taken from it
hottest_box(img, box) == BoxAround(img, img, MaxLoc(img), box)

\* thermal_camera.py 42-50: the blurred frame is img_blur and img stays the
\* converted input
hottest_box_v2(img, img_blur, box_size) ==
  BoxAround(img, img, MaxLoc(img_blur), box_size)

NoRoi == [min |-> 0, max |-> 0, mean |-> [sum |-> 0, n |-> 0],
          x1 |-> 0, y1 |-> 0, x2 |-> 0, y2 |-> 0]
NoMetric == [w |-> 0, h |-> 0, px |-> <<>>]

BoxIdle ==
  /\ hb_pc = "idle" /\ hb_metric = NoMetric /\ hb_box = 0 /\ hb_img = NoMetric
  /\ hb_loc = <<0, 0>> /\ hb_roi = NoRoi /\ hb_alt = NoRoi

\* the values of the pixels that differ from the background, which is 0
HotValues == {1, 2}

\* a frame of background 0 whose pixels in hot have the values v gives them
Metric(w, h, hot, v) ==
  [w |-> w, h |-> h,
   px |-> [c \in Cells(w, h) |-> IF c \in hot THEN v[c] ELSE 0]]

\* requested box sizes: none, odd, as wide as two frames, the program's own
BoxSizes == {0, 5, 2 * MaxSide, HOT_BOX_SIZE}

\* main.py 74-75, thermal_camera.py 40-41: astype, then GaussianBlur
Smooth ==
  /\ hb_pc = "start"
  /\ hb_img' = GaussianBlur(AsFloat32(hb_metric))
  /\ hb_pc' = "smoothed"
  /\ UNCHANGED <<hb_metric, hb_box, hb_loc, hb_roi, hb_alt, notBox>>

\* roi = hottest_box(metric_img, HOT_BOX_SIZE) from the minMaxLoc on, and
\* the same for the function of thermal_camera.py
Locate ==
  /\ hb_pc = "smoothed"
  /\ hb_pc' = "done"
  /\ hb_loc' = MaxLoc(hb_img)
  /\ hb_roi' = hottest_box(hb_img, hb_box)
  /\ hb_alt' = hottest_box_v2(AsFloat32(hb_metric), hb_img, hb_box)
  /\ UNCHANGED <<hb_metric, hb_box, hb_img, notBox>>

\* ------------------------------------------------------- start of main()
ExitOk == 0
ExitFail == 1
NotExited == -1

StartReset ==
  /\ m_pc = [p \in Procs |-> "init"]
  /\ m_cam = [p \in Procs |-> FALSE]
  /\ m_log = [p \in Procs |-> <<>>]
  /\ m_err = [p \in Procs |-> <<>>]
  /\ m_status = [p \in Procs |-> NotExited]

StartIdle == StartReset

\* main.py 144, 305-306: next_launch_dir raised; nothing in main() or around
\* the call of main() catches it, so the interpreter prints the traceback to
\* stderr and the process ends with status 1
Propagate(p) ==
  /\ m_pc[p] = "init" /\ sp[p] = "raised"
  /\ m_err' = [m_err EXCEPT ![p] =
                 Append(@, [kind |-> "traceback", cause |-> "FileExistsError"])]
  /\ m_status' = [m_status EXCEPT ![p] = ExitFail]
  /\ m_pc' = [m_pc EXCEPT ![p] = "exited"]
  /\ UNCHANGED <<m_cam, m_log, sessVars, notStart>>

\* main.py 144-154: run_dir is there; logging.basicConfig with the session
\* log in it, then log.info(f"Run directory: {run_dir}")
SetupLogging(p) ==
  /\ m_pc[p] = "init" /\ sp[p] = "returned"
  /\ m_log' = [m_log EXCEPT ![p] =
                 Append(@, [kind |-> "run_dir", dir |-> sret[p]])]
  /\ m_pc' = [m_pc EXCEPT ![p] = "logging"]
  /\ UNCHANGED <<m_cam, m_err, m_status, sessVars, notStart>>

\* main.py 165-166: cam = ThermalCamera(); gps = GPSReader()
OpenCamera(p) ==
  /\ m_pc[p] = "logging"
  /\ m_cam' = [m_cam EXCEPT ![p] = TRUE]
  /\ m_pc' = [m_pc EXCEPT ![p] = "ready"]
  /\ UNCHANGED <<m_log, m_err, m_status, sessVars, notStart>>

\* main.py 186-188: log.info("Keys: ..."); running = True; while running
EnterLoop(p) ==
  /\ m_pc[p] = "ready"
  /\ m_log' = [m_log EXCEPT ![p] = Append(@, [kind |-> "keys", dir |-> sret[p]])]
  /\ m_pc' = [m_pc EXCEPT ![p] = "loop"]
  /\ UNCHANGED <<m_cam, m_err, m_status, sessVars, notStart>>

\* main.py 301-306: the loop ended; return True; sys.exit(0)
MainReturn(p) ==
  /\ m_pc[p] = "loop"
  /\ m_status' = [m_status EXCEPT ![p] = ExitOk]
  /\ m_pc' = [m_pc EXCEPT ![p] = "exited"]
  /\ UNCHANGED <<m_cam, m_log, m_err, sessVars, notStart>>

InitLoop ==
  /\ LoopStart /\ profile \in Profiles /\ SessIdle /\ ParseIdle /\ ReaderIdle
  /\ LoggerIdle /\ IndexIdle /\ BoxIdle /\ StartIdle

InitSess ==
  /\ LoopStart /\ profile = NoProfile
  /\ root \in InitRoots
  /\ sp = [p \in Procs |-> "start"]
  /\ sn = [p \in Procs |-> 0]
  /\ sret = [p \in Procs |-> NoEntryName]
  /\ sseen = [p \in Procs |-> {}]
  /\ sconc = [p \in Procs |-> {}]
  /\ sorder = <<>>
  /\ ParseIdle /\ ReaderIdle /\ LoggerIdle /\ IndexIdle /\ BoxIdle /\ StartIdle

InitParse ==
  /\ LoopStart /\ profile = NoProfile /\ SessIdle /\ ReaderIdle
  /\ LoggerIdle /\ IndexIdle /\ BoxIdle /\ StartIdle
  /\ line \in InputLines /\ pd_pc = "start" /\ pd_out = NoOut

\* arduino_reader.py 106-108: reader = ArduinoReader(); reader.run()
InitReader ==
  /\ LoopStart /\ profile = NoProfile /\ SessIdle /\ ParseIdle
  /\ LoggerIdle /\ IndexIdle /\ BoxIdle /\ StartIdle
  /\ r_pc = "start" /\ r_avail \in SUBSET Ports /\ ReaderReset
  /\ r_max = MaxPortEvents

InitLive ==
  /\ LoopStart /\ profile = NoProfile /\ SessIdle /\ ParseIdle
  /\ LoggerIdle /\ IndexIdle /\ BoxIdle /\ StartIdle
  /\ r_pc = "start" /\ r_avail \in SUBSET Ports /\ ReaderReset
  /\ r_max = MaxLiveEvents

\* the log file is absent, or there from an earlier run
InitLogger ==
  /\ LoopStart /\ profile = NoProfile /\ SessIdle /\ ParseIdle
  /\ ReaderIdle /\ IndexIdle /\ BoxIdle /\ StartIdle
  /\ LoggerReset
  /\ dl_file \in {NoFile,
                   [exists |-> TRUE,
                    lines |-> <<HeaderRow, [kind |-> "row", by |-> 0, k |-> 1]>>]}

InitBox ==
  /\ LoopStart /\ profile = NoProfile /\ SessIdle /\ ParseIdle /\ ReaderIdle
  /\ LoggerIdle /\ IndexIdle /\ StartIdle
  /\ hb_pc = "start" /\ hb_box \in BoxSizes
  /\ \E w \in 1..MaxSide, h \in 1..MaxSide :
       \E hot \in SUBSET Cells(w, h) :
          /\ Cardinality(hot) <= MaxHot
          /\ \E v \in [hot -> HotValues] : hb_metric = Metric(w, h, hot, v)
  /\ hb_img = NoMetric
  /\ hb_loc = <<0, 0>> /\ hb_roi = NoRoi /\ hb_alt = NoRoi

NextBox == Smooth \/ Locate

SpecBox == InitBox /\ [][NextBox]_vars

InitMain ==
  /\ LoopStart /\ profile = NoProfile
  /\ root \in InitRoots
  /\ sp = [p \in Procs |-> "start"]
  /\ sn = [p \in Procs |-> 0]
  /\ sret = [p \in Procs |-> NoEntryName]
  /\ sseen = [p \in Procs |-> {}]
  /\ sconc = [p \in Procs |-> {}]
  /\ sorder = <<>>
  /\ ParseIdle /\ ReaderIdle /\ LoggerIdle /\ IndexIdle /\ BoxIdle
  /\ StartReset

NextMain ==
  \E p \in Procs :
     \/ Scan(p) \/ Create(p) \/ Propagate(p) \/ SetupLogging(p)
     \/ OpenCamera(p) \/ EnterLoop(p) \/ MainReturn(p)

SpecMain == InitMain /\ [][NextMain]_vars

NextLogger == \E w \in Writers : LogCheck(w) \/ LogOpen(w) \/ LogWrite(w)

SpecLogger == InitLogger /\ [][NextLogger]_vars

OldIndex ==
  [exists |-> TRUE, lines |-> <<HeaderRow, [kind |-> "row", by |-> 0, k |-> 1]>>]

\* an empty data root, or one with launch01..launch99 and the launch100 of
\* an earlier run
InitIndex ==
  /\ LoopStart /\ profile = NoProfile /\ ParseIdle /\ ReaderIdle
  /\ LoggerIdle /\ IndexReset /\ BoxIdle /\ StartIdle
  /\ sp = [p \in Procs |-> "start"]
  /\ sn = [p \in Procs |-> 0]
  /\ sret = [p \in Procs |-> NoEntryName]
  /\ sseen = [p \in Procs |-> {}]
  /\ sconc = [p \in Procs |-> {}]
  /\ sorder = <<>>
  /\ \/ /\ root = {}
        /\ ix_files = [d \in {} |-> NoFile]
     \/ /\ root = LaunchDirs(1..100)
        /\ ix_files = [d \in Names(LaunchDirs(1..100)) |-> OldIndex]

NextIndex ==
  \E p \in Procs :
     Scan(p) \/ Create(p) \/ IndexCheck(p) \/ IndexInit(p) \/ IndexAppend(p)

SpecIndex == InitIndex /\ [][NextIndex]_vars

\* the steps of run() itself
ReaderStep == RunStart \/ Probe \/ ReadOk \/ ReadLine \/ ReadError \/ Backoff

NextReader ==
  \/ RunStart \/ Probe \/ ReadOk \/ ReadLine \/ ReadError \/ Backoff
  \/ StopRequest
  \/ \E p \in Ports : Unplug(p) \/ Plug(p)
  \/ \E l \in StreamLines : Deliver(l)

SpecReader == InitReader /\ [][NextReader]_vars

\* run() is a loop of its own process: it keeps taking steps
LiveReader == InitLive /\ [][NextReader]_vars /\ WF_vars(ReaderStep)

NextParse == ProcessLine

SpecParse == InitParse /\ [][NextParse]_vars

NextSess == \E p \in Procs : Scan(p) \/ Create(p)

SpecSess == InitSess /\ [][NextSess]_vars

NextLoop ==
  \/ Tick \/ Gate \/ ColorReturn \/ RetryReturn \/ RawReturn \/ Record
  \/ LoopEnd \/ Shutdown
  \/ AS_mkstemp \/ AS_imwrite_begin \/ AS_imwrite_end \/ AS_check
  \/ AS_probe \/ AS_replace

NextLoopKill == NextLoop \/ Kill

NextLoopIO == NextLoop \/ GpsRaiseAtSave \/ GpsRaiseAtPoll

SpecLoop == InitLoop /\ [][NextLoop]_vars

SpecLoopKill == InitLoop /\ [][NextLoopKill]_vars

SpecLoopIO == InitLoop /\ [][NextLoopIO]_vars

LiveLoop == InitLoop /\ [][NextLoop]_vars /\ WF_vars(NextLoop)

\* ============================================================ properties
Finals == (DOMAIN files) \ {TmpName}

ThermalLines == Cardinality({i \in 1..Len(log) : log[i].kind = "THERMAL"})

Radiometric(f) == f.mode = "radiometric" /\ f.units = "C" /\ f.frame16 # "None"

RawFallback(f) ==
  /\ f.mode = "8bit" /\ f.units = "raw" /\ f.frame16 = "None"
  /\ f.metric = "gray8" /\ f.gray8 = "capture_frame"

RawPath == [ts |-> ts, tag |-> "raw16"]

ColorWritten ==
  FileAt(files, path_color) = [id |-> frame.id, kind |-> "color", st |-> "valid"]

RawWritten ==
  FileAt(files, RawPath) = [id |-> frame.id, kind |-> "raw16", st |-> "valid"]

\* a tick whose gate fired has finished its save block
SaveDone == fired /\ pc = "gps_periodic"

\* C1: atomic_save is atomic under interruption.  In every state, also one
\* in which the process has been killed, every file of the session directory
\* other than the temp file is a complete image, and while a call is in
\* progress the file at final_path is what it was before the call or the
\* complete new image; a final file changes only in the rename step.
C1_StateOk ==
  /\ \A n \in Finals : files[n].st = "valid"
  /\ as_pc # "idle" =>
       FileAt(files, as_path) \in {as_pre, Content(as_img, "valid")}

C1_OnlyRename ==
  \A n \in (DOMAIN files) \cup (DOMAIN files') :
     (n # TmpName /\ FileAt(files', n) # FileAt(files, n))
       => (as_pc = "replace" /\ n = as_path
           /\ FileAt(files', n) = Content(as_img, "valid"))

C1_AtomicSave == [](C1_StateOk) /\ [][C1_OnlyRename]_vars

\* killed in the middle of imwrite while an earlier complete file is at
\* final_path
C1_Witness ==
  /\ pc = "killed" /\ as_pc = "imwriting"
  /\ as_pre.st = "valid" /\ FileAt(files, as_path) = as_pre
  /\ FileAt(files, TmpName).st = "partial"

\* C2: the gate fires exactly when now - last_save >= THERMAL_INTERVAL and
\* last_save becomes the current time at the end of the save; so the first
\* tick saves, without a manual trigger two consecutive saves are at least
\* THERMAL_INTERVAL apart, and ticks within the first interval add no save.
C2_GateStep ==
  /\ pc = "gate" =>
       ((pc' = "save_color") <=> (now - last_save >= THERMAL_INTERVAL))
  /\ pc = "record" => last_save' = now'

C2_StateOk ==
  /\ (ticks >= 1 /\ pc # "gate") => nFires >= 1
  /\ (ticks = 1 /\ pc # "gate") => fired
  /\ (~forced /\ prevFire # -1) => lastFire - prevFire >= THERMAL_INTERVAL
  /\ (~forced /\ ticks >= 1 /\ pc # "gate" /\ now - Epoch < THERMAL_INTERVAL)
       => (nFires = 1 /\ lastFire = Epoch)

C2_SaveGate == [](C2_StateOk) /\ [][C2_GateStep]_vars

\* three ticks 0.1 s apart, one save, made at the first tick
C2_Witness ==
  /\ ticks = 3 /\ pc = "gps_periodic" /\ now = Epoch + 2 /\ ~forced
  /\ nFires = 1 /\ Len(index) = 1 /\ lastFire = Epoch

\* C3: when both attempts of the colour save fail the tick's save is
\* skipped, so every index row names an image that is in the session
\* directory.
C3_RowsNameCommittedImages ==
  \A i \in 1..Len(index) : FileAt(files, index[i].filename).st = "valid"

C5_ModePerTick ==
  ticks >= 1 =>
    IF calibRaised THEN RawFallback(frame)
    ELSE /\ Radiometric(frame)
         /\ frame.metric = "celsius" /\ frame.gray8 = "display8_from_16"

\* three failing ticks, then a radiometric one
C5_Witness ==
  /\ ticks = 4 /\ events = 3 /\ streak = 3 /\ ~calibRaised /\ frame.mode = "radiometric"

\* C9: a call whose verification failed returns False with the temp file
\* gone and final_path as it was before the call.
VerificationFailed ==
  \/ ~as_out.ok
  \/ as_out.st = "empty"
  \/ as_out.st \in {"corrupt", "partial"}

C9_FailedSaveLeavesFinal ==
  (as_pc = "returned" /\ VerificationFailed) =>
     /\ ~as_ret
     /\ TmpName \notin DOMAIN files
     /\ FileAt(files, as_path) = as_pre

\* an undecodable temp file, with an earlier image at final_path
C9_Witness ==
  /\ as_pc = "returned" /\ as_out.ok /\ as_out.st = "corrupt"
  /\ as_pre.st = "valid" /\ ~as_ret

\* C10: after the quit key no frame is captured; the save of that tick is
\* finished before the windows are destroyed and main returns; and the loop
\* does terminate.
C10_NoCapture ==
  /\ ~running => (ticks' = ticks /\ frame' = frame /\ colorized' = colorized)
  /\ (windows /\ ~windows') => (as_pc = "idle" /\ pc = "loop_top" /\ pc' = "done")
  /\ (~running /\ InSave) => (pc' # "done" /\ pc' # "loop_top")

C10_DoneOk ==
  pc = "done" =>
    /\ ~running /\ ~windows
    /\ as_pc = "idle" /\ TmpName \notin DOMAIN files
    /\ Len(index) = nFires /\ ThermalLines = nFires
    /\ fired => /\ index[Len(index)].filename = path_color
                /\ log[Len(log)].kind \in {"THERMAL", "GPS"}
                /\ results.color => ColorWritten

C10_Stop ==
  /\ [](C10_DoneOk)
  /\ [][C10_NoCapture]_vars
  /\ (~running ~> pc = "done")

\* quit pressed on a tick whose gate fired: the save is complete at exit
C10_Witness ==
  /\ pc = "done" /\ key = "q" /\ fired /\ ColorWritten
  /\ Len(index) = nFires

\* C11: the 's' key sets last_save to zero on its tick and the gate of that
\* same tick fires, however recent the previous save; the save block ends
\* with last_save = the time of its completion, and a later tick without 's'
\* saves exactly when THERMAL_INTERVAL has passed since that completion.
C11_Step ==
  /\ (pc = "loop_top" /\ pc' = "gate" /\ key' = "s") => last_save' = 0
  /\ (pc = "gate" /\ key = "s") => (last_save = 0 /\ pc' = "save_color")
  /\ pc = "record" => (last_save' = now' /\ lastDone' = now')
  /\ (pc = "gate" /\ key # "s" /\ lastDone # -1) =>
       ((pc' = "save_color") <=> (now - lastDone >= THERMAL_INTERVAL))

C11_SameTick == (key = "s" /\ pc # "gate") => fired

C11_ForcedSave == [](C11_SameTick) /\ [][C11_Step]_vars

\* an autosave, a forced save 0.1 s later, and 0.1 s after that a tick
\* without 's' that does not save
C11_Witness ==
  /\ ticks = 3 /\ pc = "gps_periodic" /\ key = "none" /\ ~fired
  /\ nFires = 2 /\ prevFire = Epoch /\ lastFire = Epoch + 1
  /\ lastDone = Epoch + 1 /\ now = Epoch + 2

\* C12: the save block ends with cmap_idx = (cmap_idx + 1) mod
\* len(colormaps), whatever the mode of the frame; cmap_idx is always a
\* valid position of the list; and while 'c' has not been pressed the i-th
\* save of the run uses the i-th colormap of the list, counted cyclically.
C12_Step == pc = "record" => cmap_idx' = (cmap_idx + 1) % Len(colormaps)

C12_StateOk ==
  /\ cmap_idx \in 0..(Len(colormaps) - 1)
  /\ ~cmapKeyed =>
       \A i \in 1..Len(index) :
          index[i].colormap = colormaps[((i - 1) % Len(colormaps)) + 1]

C12_Rotation == [](C12_StateOk) /\ [][C12_Step]_vars

\* seven saves, one of them of an 8-bit frame: the seventh is JET again
C12_Witness ==
  /\ Len(index) = 7 /\ ~cmapKeyed /\ cmap_idx = 1
  /\ index[6].colormap = "PLASMA" /\ index[7].colormap = "JET"
  /\ \E i \in 1..7 : index[i].mode = "8bit"
  /\ \E i \in 1..7 : index[i].mode = "radiometric"

\* C13: no save overwrites a file of an earlier save: whenever atomic_save
\* is called, nothing is at its final_path yet.
C13_NoOverwrite == as_pc # "idle" => as_pre = Absent

\* C14: the save block consults the GPS after the images are written and
\* appends its index row in any case.  The row carries the latitude and the
\* longitude of the sample read at this save, or two empty fields when
\* GPS_INTERVAL has not passed since the last sample or when read() gave
\* none; read() returns at once when no byte is waiting and at the latest
\* after the serial timeout.
C14_Step ==
  pc = "record" =>
    LET row == index'[Len(index')]
    IN /\ Len(index') = Len(index) + 1 /\ files' = files
       /\ now' - now <= SerialTimeout
       /\ now - last_gps < GPS_INTERVAL =>
            (row.lat = "" /\ row.lon = "" /\ now' = now)
       /\ (last_gps' # last_gps) <=> (row.lat = Fix.lat /\ row.lon = Fix.lon)
       /\ (row.lat = "") <=> (row.lon = "")

C14_BothOrNeither ==
  \A i \in 1..Len(index) :
     <<index[i].lat, index[i].lon>> \in {<<"", "">>, <<Fix.lat, Fix.lon>>}

C18_Absorbed == pc # "crashed"

\* ------------------------------------------------------ telemetry lines
Commas(l) == {i \in 1..Len(l) : l[i] = Comma}

NumFields(l) == Cardinality(Commas(l)) + 1

\* the i-th comma-separated field of the line
Field(l, i) ==
  LET from == {0} \cup Commas(l)
      to   == Commas(l) \cup {Len(l) + 1}
      a    == CHOOSE x \in from : Cardinality({y \in from : y < x}) = i - 1
      b    == CHOOSE x \in to : Cardinality({y \in to : y < x}) = i - 1
  IN SubSeq(l, a + 1, b - 1)

\* the texts of the input fields that float() accepts, with their values in
\* thousandths
FloatOf ==
  { << <<"3", "7", ".", "5">>, 37500 >>, << <<"1">>, 1000 >>,
    << <<"-", "1", "2", "2", ".", "3">>, -122300 >>, << <<"2">>, 2000 >>,
    << <<"1", "0", ".", "0">>, 10000 >>, << <<"1", "0", ".">>, 10000 >> }

\* the texts of the input fields that int() accepts, with their values
IntOf == { << <<"8">>, 8 >>, << <<"-", "1">>, -1 >> }

Accepted(table) == {e[1] : e \in table}

ValueIn(table, text) == (CHOOSE e \in table : e[1] = text)[2]

GpsLine(l) ==
  /\ NumFields(l) >= 7
  /\ Field(l, 1) = <<"DATA">> /\ Field(l, 2) = <<"GPS">>
  /\ Field(l, 4) \in Accepted(FloatOf) /\ Field(l, 5) \in Accepted(FloatOf)
  /\ Field(l, 6) \in Accepted(FloatOf) /\ Field(l, 7) \in Accepted(IntOf)

ClockLine(l) ==
  /\ NumFields(l) >= 3
  /\ Field(l, 1) = <<"DATA">> /\ Field(l, 2) = <<"RTC">>

ExampleGps ==
  Join(<< <<"DATA">>, <<"GPS">>, <<"20240101120000">>, <<"3", "7", ".", "5">>,
          <<"-", "1", "2", "2", ".", "3">>, <<"1", "0", ".", "0">>, <<"8">> >>)

ExampleShort ==
  Join(<< <<"DATA">>, <<"GPS">>, <<"ts">>, <<"1">>, <<"2">> >>)

\* C15: process_data logs one GPS sample exactly for the lines whose first
\* field is DATA, whose second is GPS, that have at least 7 fields and whose
\* fields 4 to 6 are accepted by float() and field 7 by int(), with those
\* values; one Clock sample exactly for the lines DATA,RTC,... of at least 3
\* fields; nothing otherwise; and no exception leaves it.  The two example
\* lines give the sample 37.5, -122.3, 10.0, 8 and nothing.
C15_Parse ==
  pd_pc = "done" =>
    LET out == pd_out.out
    IN /\ ~pd_out.escaped
       /\ Len(out) <= 1
       /\ GpsLine(line) <=> (Len(out) = 1 /\ out[1].type = "gps")
       /\ GpsLine(line) =>
            out[1] = [type |-> "gps", timestamp |-> Field(line, 3),
                      latitude |-> ValueIn(FloatOf, Field(line, 4)),
                      longitude |-> ValueIn(FloatOf, Field(line, 5)),
                      altitude |-> ValueIn(FloatOf, Field(line, 6)),
                      satellites |-> ValueIn(IntOf, Field(line, 7))]
       /\ ClockLine(line) <=> (Len(out) = 1 /\ out[1].type = "time")
       /\ ClockLine(line) =>
            out[1] = [type |-> "time", timestamp |-> Field(line, 3)]
       /\ line = ExampleGps =>
            out = << [type |-> "gps", timestamp |-> <<"20240101120000">>,
                      latitude |-> 37500, longitude |-> -122300,
                      altitude |-> 10000, satellites |-> 8] >>
       /\ line = ExampleShort => out = <<>>

\* the example GPS line has been processed
C15_Witness ==
  /\ pd_pc = "done" /\ line = ExampleGps
  /\ Len(pd_out.out) = 1 /\ pd_out.out[1].latitude = 37500

\* ------------------------------------------------- serial reconnection
ProbeOrder == <<"/dev/ttyUSB0", "/dev/ttyUSB1", "/dev/ttyACM0", "/dev/ttyACM1">>

\* C16: a read error leaves the reader marked disconnected; the handler
\* then sleeps 5 s and probes /dev/ttyUSB0, /dev/ttyUSB1, /dev/ttyACM0,
\* /dev/ttyACM1 in this order, a probe connecting exactly when its port is
\* there, and stops at the first that connects; when none connects the
\* reader is back in its loop still disconnected, with a dead handle, so
\* that its next read fails and the same backoff and probe follow.
C16_Step ==
  /\ (r_pc = "loop" /\ r_pc' = "sleep") => ~r_connected'
  /\ (r_pc = "loop" /\ ~r_serial.alive /\ r_pc' # "loop")
       => r_pc' \in {"sleep", "stopped"}
  /\ (r_pc = "sleep" /\ r_pc' # "sleep") =>
       /\ r_pc' = "probe" /\ r_probe' = 1 /\ r_probed' = <<>>
       /\ r_now' = r_now + 50
  /\ (r_pc = "probe" /\ r_probed' # r_probed) =>
       LET k == Len(r_probed) + 1
       IN /\ r_probed' = SubSeq(ProbeOrder, 1, k)
          /\ r_connected' <=> (ProbeOrder[k] \in r_avail)
          /\ r_connected' =>
               /\ r_pc' = "loop" /\ r_port' = ProbeOrder[k]
               /\ r_serial' = [port |-> ProbeOrder[k], alive |-> TRUE]
          /\ (~r_connected' /\ k < 4) => r_pc' = "probe"
          /\ (~r_connected' /\ k = 4 /\ r_origin = "reconnect")
               => (r_pc' = "loop" /\ r_serial' = r_serial)

C16_StateOk ==
  /\ r_probed = SubSeq(ProbeOrder, 1, Len(r_probed))
  /\ r_pc \in {"sleep", "probe"} => ~r_connected
  /\ (r_pc = "loop" /\ ~r_connected) => ~r_serial.alive
  /\ (r_pc = "loop" /\ r_connected) =>
       (r_port = r_probed[Len(r_probed)] /\ r_serial.port = r_port)

C16_Reconnect == [](C16_StateOk) /\ [][C16_Step]_vars

\* a reconnection in which no port connected, then one that stopped at the
\* third port
C16_Witness ==
  /\ r_pc = "loop" /\ r_connected /\ r_failed = 1
  /\ r_now \div ReconnectDelay = 2
  /\ r_probed = <<"/dev/ttyUSB0", "/dev/ttyUSB1", "/dev/ttyACM0">>
  /\ r_serial = [port |-> "/dev/ttyACM0", alive |-> TRUE]

\* C17: run is left on a stop request only: it never returns because no
\* port could be opened.
C17_NeverReturns == r_pc # "returned"

\* --------------------------------------------------------- CSV files
Headers(f) == {i \in 1..Len(f.lines) : f.lines[i].kind = "header"}

OneHeaderFirst(f) == Len(f.lines) > 0 => Headers(f) = {1}

IsPrefix(a, b) == Len(a) <= Len(b) /\ SubSeq(b, 1, Len(a)) = a

\* C19: whatever the interleaving of the log_data calls on one data type,
\* the file has one header row, its first line, and one row for every call
\* that has returned.
C19_OneHeader ==
  /\ OneHeaderFirst(dl_file)
  /\ (\A w \in Writers : dl_pc[w] = "idle") =>
       \A w \in Writers : \A k \in 1..dl_done[w] :
          Cardinality({i \in 1..Len(dl_file.lines) :
                         dl_file.lines[i] = [kind |-> "row", by |-> w,
                                             k |-> k]}) = 1

\* C20: an index file has one header row, its first line, and every step
\* leaves each index file an extension of what it was.
C20_AppendOnlyStep ==
  \A d \in DOMAIN ix_files :
     IsPrefix(ix_files[d].lines, IndexAt(ix_files', d).lines)

C20_HeaderOnce == \A d \in DOMAIN ix_files : OneHeaderFirst(ix_files[d])

C20_IndexAppendOnly == [](C20_HeaderOnce) /\ [][C20_AppendOnlyStep]_vars

\* ------------------------------------------------ session directory claims
Returned == {p \in Procs : sp[p] = "returned"}

Finished == {p \in Procs : sp[p] \in {"returned", "raised"}}

\* position of p in the order in which the calls returned
Rank(p) == CHOOSE i \in 1..Len(sorder) : sorder[i] = p

\* the number a session's directory name carries
SessionNum(p) == ParseInt(sret[p].num)

\* 1 + the largest NN among the directories named launchNN, or 1
ExpectedNum(r) ==
  LET nn == { 10 * e.name.num[1] + e.name.num[2] :
                e \in { x \in r : /\ x.dir
                                  /\ x.name.pre = "launch" /\ x.name.suf = ""
                                  /\ Len(x.name.num) = 2 } }
  IN IF nn = {} THEN 1
     ELSE 1 + CHOOSE m \in nn : \A k \in nn : k <= m

TwoDigits(n) == <<n \div 10, n % 10>>

\* no call of any instance overlapped another one
Sequential == \A p \in Procs : sconc[p] = {}

\* C6: over runs made one after the other, every call returns a directory
\* that did not exist when the call started, with a number greater than
\* that of every earlier session.
C6_NeverReused ==
  Sequential =>
    \A p \in Returned :
       /\ sret[p] \notin Names(sseen[p])
       /\ \A q \in Returned : Rank(q) < Rank(p) => SessionNum(q) < SessionNum(p)

\* C7 as stated: every call creates and returns launch{n:02d} for
\* n = 1 + the largest existing NN.
C7_AsStated ==
  \A p \in Finished :
     /\ sp[p] = "returned"
     /\ sret[p] = LaunchName(Fmt02(ExpectedNum(sseen[p])))

C7_StateOk ==
  \A p \in Finished :
     LET n  == ExpectedNum(sseen[p])
         nm == [pre |-> "launch",
                num |-> IF n < 100 THEN TwoDigits(n) ELSE Digits(n),
                suf |-> ""]
     IN /\ sn[p] = n
        /\ sp[p] = "returned" =>
             /\ sret[p] = nm
             /\ [name |-> nm, dir |-> TRUE] \in root
             /\ [name |-> nm, dir |-> FALSE] \notin root
        /\ sp[p] = "raised" =>
             /\ [name |-> nm, dir |-> FALSE] \in root
             /\ [name |-> nm, dir |-> TRUE] \notin root
             /\ sret[p] = NoEntryName

\* C7: with n = 1 + the largest NN over the directories whose whole name is
\* launchNN (1 when there is none), plain files and other names not
\* counting, the call returns launch{n:02d} and that directory exists,
\* unless a plain file already has that name: then it raises and no such
\* directory is made.
C7_NextLaunchDir == C7_StateOk

\* launch01..launch07 and an unrelated directory give launch08
C7_Witness ==
  \E p \in Returned :
     /\ sseen[p] = LaunchDirs(1..7) \cup {OtherDir}
     /\ sret[p] = LaunchName(<<0, 8>>)
     /\ [name |-> LaunchName(<<0, 8>>), dir |-> TRUE] \in root

\* C8: two instances whose calls overlap get different directories.
C8_DistinctDirs ==
  \A p \in Returned : \A q \in Returned :
     (q \in sconc[p]) => sret[p] # sret[q]

\* ------------------------------------------------------------ hottest_box
\* the half-width the box is to have
ExpectedHalf == IF hb_box \div 2 > 2 THEN hb_box \div 2 ELSE 2

\* r lies in the frame, is not empty, holds the located maximum, and each of
\* its sides is the side of the box centred on the maximum or the frame's edge
BoxOk(r) ==
  LET cx == hb_loc[1]
      cy == hb_loc[2]
      w == hb_metric.w
      h == hb_metric.h
      e == ExpectedHalf
  IN /\ 0 <= r.x1 /\ r.x1 < r.x2 /\ r.x2 <= w
     /\ 0 <= r.y1 /\ r.y1 < r.y2 /\ r.y2 <= h
     /\ (r.x2 - r.x1) * (r.y2 - r.y1) >= 1
     /\ r.x1 <= cx /\ cx < r.x2 /\ r.y1 <= cy /\ cy < r.y2
     /\ r.x1 = (IF cx - e < 0 THEN 0 ELSE cx - e)
     /\ r.y1 = (IF cy - e < 0 THEN 0 ELSE cy - e)
     /\ r.x2 = (IF cx + e > w THEN w ELSE cx + e)
     /\ r.y2 = (IF cy + e > h THEN h ELSE cy + e)

\* C21: for every frame of at least one pixel, every location of the maximum
\* and every requested box size (0 and sizes larger than the frame among
\* them), the box returned by hottest_box, in main.py and in
\* thermal_camera.py, satisfies 0 <= x1 < x2 <= w and 0 <= y1 < y2 <= h, has
\* half-width max(2, box // 2), covers at least one pixel, contains the
\* maximum, and is cut at the frame's edges instead of moved.
C21_BoxInFrame ==
  hb_pc = "done" =>
    /\ hb_metric.w >= 1 /\ hb_metric.h >= 1
    /\ hb_loc \in Cells(hb_metric.w, hb_metric.h)
    /\ BoxOk(hb_roi) /\ BoxOk(hb_alt)

\* a box of requested size 0 around a maximum on the left edge, away from
\* the first pixel, that is cut on the left and ends before the right edge
C21_Witness ==
  /\ hb_pc = "done" /\ hb_box = 0 /\ hb_loc # <<0, 0>> /\ hb_loc[1] = 0
  /\ hb_roi.x2 < hb_metric.w /\ hb_roi.x2 - hb_roi.x1 < 2 * ExpectedHalf

\* the pixels of the metric frame passed in that lie in the box of r
MetricRegion(r) ==
  {c \in Cells(hb_metric.w, hb_metric.h) :
     r.x1 <= c[1] /\ c[1] < r.x2 /\ r.y1 <= c[2] /\ c[2] < r.y2}

\* min, max and mean of r are those of the metric frame over the box of r
\* (the statistics are in sixteenths, the mean as sum and count)
RoiOfMetric(r) ==
  LET S == MetricRegion(r)
  IN /\ S # {}
     /\ \A c \in S : r.min <= 16 * hb_metric.px[c] /\ 16 * hb_metric.px[c] <= r.max
     /\ \E c \in S : r.min = 16 * hb_metric.px[c]
     /\ \E c \in S : r.max = 16 * hb_metric.px[c]
     /\ r.mean.n = Cardinality(S)
     /\ r.mean.sum = 16 * SumPx(hb_metric, S)

\* C22: the ROI min, max and mean that hottest_box returns are the minimum,
\* maximum and mean of the metric matrix passed in over [y1:y2, x1:x2], and
\* of no matrix derived from it.
C22_RoiOfMetric == hb_pc = "done" => RoiOfMetric(hb_roi)

Uniform(m) == \A c, d \in DOMAIN m.px : m.px[c] = m.px[d]

\* the frame in which the maximum is located
Smoothed == hb_img

\* C23: on a uniform frame the located maximum is the first pixel in raster
\* order, (0,0), and hottest_box returns the box centred there and cut to the
\* frame: x1 = 0, y1 = 0, x2 = min(w, half), y2 = min(h, half); in general,
\* among the positions that hold the largest smoothed value the earliest in
\* raster order is the one located.
C23_TieBreak ==
  hb_pc = "done" =>
    /\ Uniform(hb_metric) =>
         /\ hb_loc = <<0, 0>>
         /\ hb_roi.x1 = 0 /\ hb_roi.y1 = 0
         /\ hb_roi.x2 = (IF hb_metric.w < ExpectedHalf THEN hb_metric.w
                         ELSE ExpectedHalf)
         /\ hb_roi.y2 = (IF hb_metric.h < ExpectedHalf THEN hb_metric.h
                         ELSE ExpectedHalf)
    /\ \A d \in DOMAIN Smoothed.px :
         /\ Smoothed.px[d] <= Smoothed.px[hb_loc]
         /\ Smoothed.px[d] = Smoothed.px[hb_loc]
              => Raster(hb_loc, hb_metric.w) <= Raster(d, hb_metric.w)

\* a uniform frame of the largest size, wider than the box that was asked for
C23_Witness ==
  /\ hb_pc = "done" /\ Uniform(hb_metric)
  /\ hb_metric.w = MaxSide /\ hb_metric.h = MaxSide
  /\ hb_roi.x2 < hb_metric.w /\ hb_loc = <<0, 0>>

\* ------------------------------------------------------- start of main()
\* the logger of instance p holds a record that names why it stops
CauseLogged(p) ==
  \E i \in 1..Len(m_log[p]) : m_log[p][i].kind \in {"error", "traceback"}

\* C24: when the session directory cannot be created (next_launch_dir fails
\* on the file system), the process never opens the camera and never enters
\* the acquisition loop, and it logs the cause and exits with a status other
\* than zero.
C24_FailFast ==
  \A p \in Procs :
    sp[p] = "raised" =>
      /\ ~m_cam[p]
      /\ m_pc[p] \in {"init", "exited"}
      /\ m_pc[p] = "exited" => (m_status[p] # ExitOk /\ CauseLogged(p))

\* ------------------------------------------------- ArduinoReader.run
\* a pass of the while loop: self.serial.in_waiting is polled, and the pass
\* ends in the sleep of 0.1 s or in the except branch
PollsSerial == r_pc = "loop" /\ (r_now' # r_now \/ r_pc' = "sleep")

\* C25: run() polls or reads self.serial only while connected is True: once
\* a read error has set connected to False, no read is attempted before a
\* reconnection has succeeded.
C25_ReadsOnlyConnected == [][PollsSerial => r_connected]_vars

\* the handle the reader had is dead: its port went away
Dropped == r_serial.port # "None" /\ ~r_serial.alive

\* the run is not past the number of backoffs that are followed
InHorizon == r_now \div ReconnectDelay < MaxRounds

\* connected, on a handle that was opened on a port that is there
Reconnected ==
  /\ r_connected /\ r_serial.alive
  /\ r_serial.port \in r_avail /\ r_port = r_serial.port

ValidLine(l) == GpsLine(l) \/ ClockLine(l)

\* a pass that reads a line logs one sample if the line is valid, of the
\* line's type, and nothing if it is not
C26_LineStep ==
  (r_pc = "loop" /\ r_now' # r_now /\ r_in # <<>>) =>
     /\ r_connected /\ r_in' = Tail(r_in)
     /\ IF ValidLine(Head(r_in))
        THEN /\ Len(r_logged') = Len(r_logged) + 1
             /\ SubSeq(r_logged', 1, Len(r_logged)) = r_logged
             /\ r_logged'[Len(r_logged')].type =
                  (IF GpsLine(Head(r_in)) THEN "gps" ELSE "time")
        ELSE r_logged' = r_logged

\* C26: after a drop, if a candidate port is connectable and stays so and
\* the reader is not stopped, the reader is eventually connected on a handle
\* newly opened on a port that is there; once connected, every line it
\* reads is logged if it is valid, and the lines that wait on the open port
\* are eventually read unless a read error, an unplugging or a stop request
\* comes first.
C26_Reconnects ==
  /\ \A p \in Ports :
       (Dropped /\ InHorizon /\ p \in r_avail /\ r_pc \in {"loop", "sleep", "probe"})
         ~> (Reconnected \/ p \notin r_avail \/ r_pc = "stopped")
  /\ [][C26_LineStep]_vars
  /\ (Reconnected /\ r_pc = "loop" /\ r_in # <<>>)
       ~> (r_in = <<>> \/ ~r_connected \/ ~r_serial.alive \/ r_pc = "stopped")

\* after a drop and a reconnection on another port, a valid line was logged
C26_Witness ==
  /\ r_now >= ReconnectDelay /\ Reconnected /\ r_serial.port # "/dev/ttyUSB0"
  /\ r_logged # <<>> /\ r_pc = "loop"

\* ------------------------------------------------------- colormap names
\* the save gate opens: the name of the colour image holds the colormap that
\* was applied to the image handed to atomic_save; the save is recorded: the
\* index row and the THERMAL line name that colormap and that file
C27_Step ==
  /\ (pc = "gate" /\ pc' = "save_color") =>
       /\ path_color'.tag = colorized.cmap
       /\ as_path' = path_color' /\ as_img'.id = colorized.id
  /\ (pc = "record" /\ pc' # "record") =>
       /\ Len(index') = Len(index) + 1 /\ Len(log') = Len(log) + 1
       /\ index'[Len(index')].colormap = colorized.cmap
       /\ index'[Len(index')].filename.tag = colorized.cmap
       /\ log'[Len(log')].kind = "THERMAL"
       /\ log'[Len(log')].cmap = colorized.cmap
       /\ log'[Len(log')].file.tag = colorized.cmap

\* C27: for every save, the colormap name in the image's file name, in the
\* index row and in the log line is the colormap that was applied to the
\* saved image, also when 'c' changed the selection in the same tick.
C27_NameIsApplied ==
  /\ [](pc \in {"save_color", "save_retry", "save_raw", "record"}
          => path_color.tag = colorized.cmap)
  /\ [][C27_Step]_vars

\* a save was recorded in a tick in which 'c' was pressed: the selection is
\* two steps past the colormap of the saved image
C27_Witness ==
  /\ pc = "gps_periodic" /\ fired /\ key = "c" /\ index # <<>>
  /\ index[Len(index)].colormap = colorized.cmap
  /\ colormaps[cmap_idx + 1] # colorized.cmap
  /\ colormaps[((cmap_idx + Len(colormaps) - 2) % Len(colormaps)) + 1]
       = colorized.cmap

\* --------------------------------------------------------- GPS polling
\* gps.read() is called in this step: at save time (main.py 254) or in the
\* periodic block (main.py 293-295)
GpsCalled ==
  /\ pc \in {"record", "gps_periodic"} /\ pc' # pc
  /\ now - last_gps >= GPS_INTERVAL

\* C28: after any call of gps.read(), with or without a fix returned, no
\* further call is made before GPS_INTERVAL has passed: the loop polls the
\* GPS reader at most once per GPS_INTERVAL window.
C28_OncePerWindow ==
  [][GpsCalled => (lastPoll = -1 \/ now - lastPoll >= GPS_INTERVAL)]_vars

TypeOK ==
  /\ r_pc \in {"idle", "start", "probe", "loop", "sleep", "returned", "stopped"}
  /\ pd_pc \in {"idle", "start", "done"}
  /\ cmap_idx \in 0..(Len(colormaps) - 1)
  /\ pc \in {"loop_top", "gate", "save_color", "save_retry", "save_raw",
                   "record", "gps_periodic", "done", "killed",
                   "crashed"}
====
